---------------------------- MODULE Spec2Model ----------------------------
(* Model of the beat-grid refinement pipeline of src/bpm.py:               *)
(*   refine_beats_to_onsets_advanced, detect_and_insert_offbeats,          *)
(*   frames_to_time_precise and stabilize_bpm_sections.                    *)
(* Real numbers are exact rationals <<num, den>> with den > 0, reduced.    *)
(* Python indices are kept 0-based as in the source; a Python list l is a  *)
(* TLA+ sequence s with l[k] = s[k + 1].                                   *)
EXTENDS Integers, Sequences, FiniteSets, TLC

VARIABLES
    fn,                     \* the function being executed
    pc,                     \* position inside that function
    \* ---- stabilize_bpm_sections
    beat_times,             \* argument: beat timestamps
    bpms,                   \* argument: instantaneous BPM values
    tolerance,              \* argument
    i,                      \* loop variable of the segmentation loop
    current_section_start,
    current_section_bpms,
    sections,
    merged_sections,
    merge_pos,              \* number of sections the merge loop has consumed
    stabilized_times,
    stabilized_bpms,
    \* ---- detect_and_insert_offbeats
    beat_frames,            \* argument: refined beat frames
    onset_frames,           \* argument: detected onset frames
    onset_phases,
    onset_beat_indices,
    phase_shifts,
    unique_shifts,          \* sorted by beat_idx once the insertion loop starts
    shift_pos,              \* number of shifts the insertion loop has consumed
    new_beats,
    inserted_count,
    returned,               \* the returned beat sequence
    return_path,            \* which return statement was taken
    \* ---- refine_beats_to_onsets_advanced (also beat_frames, onset_frames)
    onset_env,              \* argument: the onset envelope (also of frames_to_time_precise)
    refined,
    refine_pos,             \* number of beats the loop has consumed
    \* ---- frames_to_time_precise
    frames,                 \* argument: beat frames, real-valued
    times,
    frame_pos               \* number of frames the loop has consumed

stabVars == <<beat_times, bpms, tolerance, i, current_section_start,
              current_section_bpms, sections, merged_sections, merge_pos,
              stabilized_times, stabilized_bpms>>

offVars == <<beat_frames, onset_frames, onset_phases, onset_beat_indices,
             phase_shifts, unique_shifts, shift_pos, new_beats, inserted_count,
             returned, return_path>>

otherVars == <<onset_env, refined, refine_pos, frames, times, frame_pos>>

vars == <<fn, pc, stabVars, offVars, otherVars>>

-----------------------------------------------------------------------------
(* Exact rational arithmetic *)

Abs(x) == IF x < 0 THEN -x ELSE x

RECURSIVE Gcd(_, _)
Gcd(a, b) == IF b = 0 THEN a ELSE Gcd(b, a % b)

\* the reduced fraction n/d, d # 0
Frac(n, d) ==
    LET g == Gcd(Abs(n), Abs(d))
        s == IF d < 0 THEN -1 ELSE 1
    IN  <<(s * n) \div g, (s * d) \div g>>

FromInt(n) == <<n, 1>>
FAdd(a, b) == Frac(a[1] * b[2] + b[1] * a[2], a[2] * b[2])
FSub(a, b) == Frac(a[1] * b[2] - b[1] * a[2], a[2] * b[2])
FMul(a, b) == Frac(a[1] * b[1], a[2] * b[2])
FDiv(a, b) == Frac(a[1] * b[2], a[2] * b[1])
FAbs(a) == <<Abs(a[1]), a[2]>>
FLeq(a, b) == a[1] * b[2] <= b[1] * a[2]
FLt(a, b) == a[1] * b[2] < b[1] * a[2]

-----------------------------------------------------------------------------
(* Sequence helpers *)

Last(s) == s[Len(s)]
Front(s) == SubSeq(s, 1, Len(s) - 1)
Range(s) == {s[k] : k \in 1..Len(s)}

\* a sequence of rationals in strictly ascending order
StrictlyIncreasing(floats) ==
    \A k \in 1..(Len(floats) - 1) : FLt(floats[k], floats[k + 1])

RECURSIVE SeqsUpTo(_, _)
\* all sequences over S of length 0..n
SeqsUpTo(S, n) ==
    IF n = 0 THEN {<<>>}
    ELSE LET shorter == SeqsUpTo(S, n - 1)
         IN  shorter \cup {Append(s, x) : s \in {t \in shorter : Len(t) = n - 1}, x \in S}

-----------------------------------------------------------------------------
(* Values of the variables of the functions that are not running *)

StabilizeIdle ==
    /\ beat_times = <<>> /\ bpms = <<>> /\ tolerance = 0
    /\ i = 0 /\ current_section_start = 0 /\ current_section_bpms = <<>>
    /\ sections = <<>> /\ merged_sections = <<>> /\ merge_pos = 0
    /\ stabilized_times = <<>> /\ stabilized_bpms = <<>>

OffbeatIdle ==
    /\ beat_frames = <<>> /\ onset_frames = <<>>
    /\ onset_phases = <<>> /\ onset_beat_indices = <<>>
    /\ phase_shifts = <<>> /\ unique_shifts = <<>> /\ shift_pos = 0
    /\ new_beats = <<>> /\ inserted_count = 0 /\ returned = <<>>
    /\ return_path = "none"

OtherIdle ==
    /\ onset_env = <<>> /\ refined = <<>> /\ refine_pos = 0
    /\ frames = <<>> /\ times = <<>> /\ frame_pos = 0

-----------------------------------------------------------------------------
(* stabilize_bpm_sections: inputs                                          *)

MaxBpms == 4            \* longest BPM sequence drawn
MaxBpmStep == 4         \* BPM values drawn are 120.0 + k, k in 0..MaxBpmStep

\* BPM values and tolerances are in units of 0.1 BPM
BpmValues == {1200 + 10 * k : k \in 0..MaxBpmStep}
Tolerances == {0, 20, 30}
ScenarioC == <<1200, 1205, 1210, 1500, 1502>>
BpmInputs == SeqsUpTo(BpmValues, MaxBpms) \cup {ScenarioC}

\* n beat timestamps (ms), strictly increasing
BeatTimesOf(n) == [k \in 1..n |-> 500 * (k - 1)]

-----------------------------------------------------------------------------
(* stabilize_bpm_sections: helpers                                         *)

\* np.median of a non-empty list of integers
Median(s) ==
    LET n == Len(s)
        srt == SortSeq(s, <)
    IN  IF n % 2 = 1 THEN FromInt(srt[(n + 1) \div 2])
        ELSE Frac(srt[n \div 2] + srt[n \div 2 + 1], 2)

\* abs(a - b) <= tolerance
WithinTolerance(a, b, tol) == FLeq(FAbs(FSub(a, b)), FromInt(tol))

\* the dict appended to sections
Section(start, end, section_bpms, stamps) ==
    [start_idx |-> start, end_idx |-> end, bpm |-> Median(section_bpms),
     time |-> stamps[start + 1]]

MergedBpmUnnormalised(last, section) ==
    LET last_count == last.end_idx - last.start_idx + 1
        curr_count == section.end_idx - section.start_idx + 1
    IN  FDiv(FAdd(FMul(last.bpm, FromInt(last_count)),
                  FMul(section.bpm, FromInt(curr_count))),
             FromInt(last_count))

\* the BPM of the extended section; `last` already has its end_idx extended
MergedBpm(last, section) ==
    LET last_count == last.end_idx - last.start_idx + 1
        curr_count == section.end_idx - section.start_idx + 1
    IN  FDiv(FAdd(FMul(last.bpm, FromInt(last_count)),
                  FMul(section.bpm, FromInt(curr_count))),
             FromInt(last_count + curr_count))

\* one iteration of the merge loop
MergeOne(merged, section, tol) ==
    IF merged # <<>>
    THEN LET last == Last(merged)
         IN  IF WithinTolerance(section.bpm, last.bpm, tol)
             THEN LET extended == [last EXCEPT !.end_idx = section.end_idx]
                  IN  Append(Front(merged),
                             [extended EXCEPT !.bpm = MergedBpm(extended, section)])
             ELSE Append(merged, section)
    ELSE Append(merged, section)

RECURSIVE MergeFrom(_, _, _)
MergeFrom(merged, rest, tol) ==
    IF rest = <<>> THEN merged
    ELSE MergeFrom(MergeOne(merged, Head(rest), tol), Tail(rest), tol)

\* the whole merge loop over a section list
MergePass(secs, tol) == MergeFrom(<<>>, secs, tol)

TrailingTimeAtEnd(stamps, section) ==
    IF section.end_idx < Len(stamps) THEN stamps[section.end_idx + 1] ELSE Last(stamps)

\* the closing time appended after the last section
TrailingTime(stamps, section) ==
    IF section.end_idx + 1 < Len(stamps) THEN stamps[section.end_idx + 2] ELSE Last(stamps)

-----------------------------------------------------------------------------
(* stabilize_bpm_sections: steps                                           *)

InitStabilize ==
    /\ fn = "stabilize_bpm_sections" /\ pc = "start"
    /\ bpms \in BpmInputs
    /\ tolerance \in Tolerances
    /\ beat_times \in {BeatTimesOf(n) : n \in {Len(bpms), Len(bpms) + 1}}
    /\ i = 0 /\ current_section_start = 0 /\ current_section_bpms = <<>>
    /\ sections = <<>> /\ merged_sections = <<>> /\ merge_pos = 0
    /\ stabilized_times = <<>> /\ stabilized_bpms = <<>>
    /\ OffbeatIdle
    /\ OtherIdle

\* if len(bpms) < 2: return beat_times, bpms
StabilizeEarlyReturn ==
    /\ fn = "stabilize_bpm_sections" /\ pc = "start"
    /\ Len(bpms) < 2
    /\ stabilized_times' = beat_times
    /\ stabilized_bpms' = [k \in 1..Len(bpms) |-> FromInt(bpms[k])]
    /\ pc' = "done"
    /\ UNCHANGED <<offVars, otherVars>>
    /\ UNCHANGED <<fn, beat_times, bpms, tolerance, i, current_section_start,
                   current_section_bpms, sections, merged_sections, merge_pos>>

StabilizeBegin ==
    /\ fn = "stabilize_bpm_sections" /\ pc = "start"
    /\ Len(bpms) >= 2
    /\ sections' = <<>>
    /\ current_section_start' = 0
    /\ current_section_bpms' = <<bpms[1]>>
    /\ i' = 1
    /\ pc' = "segment"
    /\ UNCHANGED <<offVars, otherVars>>
    /\ UNCHANGED <<fn, beat_times, bpms, tolerance, merged_sections, merge_pos,
                   stabilized_times, stabilized_bpms>>

\* loop body, bpms[i] within tolerance of the running median
SegmentSame ==
    /\ fn = "stabilize_bpm_sections" /\ pc = "segment"
    /\ i < Len(bpms)
    /\ WithinTolerance(FromInt(bpms[i + 1]), Median(current_section_bpms), tolerance)
    /\ current_section_bpms' = Append(current_section_bpms, bpms[i + 1])
    /\ i' = i + 1
    /\ UNCHANGED <<offVars, otherVars>>
    /\ UNCHANGED <<fn, pc, beat_times, bpms, tolerance, current_section_start,
                   sections, merged_sections, merge_pos, stabilized_times,
                   stabilized_bpms>>

\* loop body, bpms[i] outside tolerance: close the section, start a new one
SegmentNew ==
    /\ fn = "stabilize_bpm_sections" /\ pc = "segment"
    /\ i < Len(bpms)
    /\ ~WithinTolerance(FromInt(bpms[i + 1]), Median(current_section_bpms), tolerance)
    /\ sections' = Append(sections,
            Section(current_section_start, i - 1, current_section_bpms, beat_times))
    /\ current_section_start' = i
    /\ current_section_bpms' = <<bpms[i + 1]>>
    /\ i' = i + 1
    /\ UNCHANGED <<offVars, otherVars>>
    /\ UNCHANGED <<fn, pc, beat_times, bpms, tolerance, merged_sections, merge_pos,
                   stabilized_times, stabilized_bpms>>

\* after the loop: the last section
SegmentLast ==
    /\ fn = "stabilize_bpm_sections" /\ pc = "segment"
    /\ i = Len(bpms)
    /\ sections' = Append(sections,
            Section(current_section_start, Len(bpms) - 1, current_section_bpms, beat_times))
    /\ merged_sections' = <<>>
    /\ merge_pos' = 0
    /\ pc' = "merge"
    /\ UNCHANGED <<offVars, otherVars>>
    /\ UNCHANGED <<fn, beat_times, bpms, tolerance, i, current_section_start,
                   current_section_bpms, stabilized_times, stabilized_bpms>>

\* for section in sections: ...
MergeStep ==
    /\ fn = "stabilize_bpm_sections" /\ pc = "merge"
    /\ merge_pos < Len(sections)
    /\ merged_sections' = MergeOne(merged_sections, sections[merge_pos + 1], tolerance)
    /\ merge_pos' = merge_pos + 1
    /\ UNCHANGED <<offVars, otherVars>>
    /\ UNCHANGED <<fn, pc, beat_times, bpms, tolerance, i, current_section_start,
                   current_section_bpms, sections, stabilized_times, stabilized_bpms>>

\* build the output arrays and return
BuildOutput ==
    /\ fn = "stabilize_bpm_sections" /\ pc = "merge"
    /\ merge_pos = Len(sections)
    /\ stabilized_times' =
            Append([k \in 1..Len(merged_sections) |-> merged_sections[k].time],
                   TrailingTime(beat_times, Last(merged_sections)))
    /\ stabilized_bpms' = [k \in 1..Len(merged_sections) |-> merged_sections[k].bpm]
    /\ pc' = "done"
    /\ UNCHANGED <<offVars, otherVars>>
    /\ UNCHANGED <<fn, beat_times, bpms, tolerance, i, current_section_start,
                   current_section_bpms, sections, merged_sections, merge_pos>>

NextStabilize ==
    \/ StabilizeEarlyReturn
    \/ StabilizeBegin
    \/ SegmentSame
    \/ SegmentNew
    \/ SegmentLast
    \/ MergeStep
    \/ BuildOutput

SpecStabilize == InitStabilize /\ [][NextStabilize]_vars

-----------------------------------------------------------------------------
(* detect_and_insert_offbeats: inputs                                      *)

MaxBeats == 6           \* longest beat sequence drawn
MaxBars == 5            \* onsets are drawn bar by bar over this many bars
BarLen == 8             \* frames per bar, and the non-zero beat spacing drawn

\* Refined beat frames: non-decreasing (the refiner may snap two beats onto one
\* frame), first beat on frame 0 or one bar later, spacing 0 or BarLen.
BeatStarts == {0, BarLen}
BeatGaps == {0, BarLen}

RECURSIVE PrefixSums(_, _)
PrefixSums(first, gaps) ==
    IF gaps = <<>> THEN <<first>>
    ELSE <<first>> \o PrefixSums(first + Head(gaps), Tail(gaps))

\* One longer piece: eight evenly spaced beats whose onsets sit around the
\* half beat for two bars, around the beat for three bars and around the half
\* beat again for two bars.
ScenarioBeats == [k \in 1..8 |-> BarLen * (k - 1)]

BeatInputs ==
    {PrefixSums(first, gaps) :
        first \in BeatStarts,
        gaps \in {g \in SeqsUpTo(BeatGaps, MaxBeats - 1) : Len(g) >= 2}}
    \cup {ScenarioBeats}

\* Onset offsets inside one bar: none, on the beat, around the beat, around
\* the half beat, around the quarter beat.
BarPatterns == {{}, {0}, {0, 1, 7}, {2, 3, 4, 5}, {1, 2, 3}}

RECURSIVE Ascending(_)
\* the elements of a finite set of integers in ascending order
Ascending(S) ==
    IF S = {} THEN <<>>
    ELSE LET m == CHOOSE x \in S : \A y \in S : x <= y
         IN  <<m>> \o Ascending(S \ {m})

ScenarioOnsets ==
    Ascending(UNION {{BarLen * (b - 1) + o :
                            o \in IF b <= 2 \/ b >= 6 THEN {2, 3, 4, 5} ELSE {0, 1, 7}} :
                      b \in 1..7})

\* The onset detector reports strictly increasing integer frames. The onsets
\* drawn follow one bar pattern up to a change point and another after it.
OnsetInputs ==
    {Ascending(UNION {{BarLen * (b - 1) + o :
                            o \in IF b <= change THEN before ELSE after} :
                      b \in 1..MaxBars}) :
        before \in BarPatterns, after \in BarPatterns, change \in 0..MaxBars}
    \cup {ScenarioOnsets}

-----------------------------------------------------------------------------
(* detect_and_insert_offbeats: helpers                                     *)

window_size == 8
phase_tolerance == Frac(15, 100)
offbeat_phases == <<Frac(5, 10), Frac(25, 100), Frac(75, 100)>>

\* np.diff
Diff(s) == [k \in 1..(Len(s) - 1) |-> s[k + 1] - s[k]]

\* np.array(x, dtype=float)
AsFloats(s) == [k \in 1..Len(s) |-> FromInt(s[k])]

\* x % 1.0
Mod1(x) == Frac(x[1] % x[2], x[2])

\* np.searchsorted(a, v) on an ascending a: the first position whose element
\* is >= v, i.e. the number of elements < v
SearchSorted(a, v) == Cardinality({k \in 1..Len(a) : a[k] < v})

TooLittleData(beats, onsets) == Len(beats) < 4 \/ Len(onsets) < 4

PassThroughDeduplicated(beats) == AsFloats(Ascending(Range(beats)))

\* return beat_frames
PassThrough(beats) == AsFloats(beats)

PhaseOfStrictlyInside(beats, onset) ==
    LET beat_idx == SearchSorted(beats, onset) - 1
    IN  IF 0 <= beat_idx /\ beat_idx < Len(beats) - 1
        THEN LET beat_start == beats[beat_idx + 1]
                 local_interval == beats[beat_idx + 2] - beat_start
             IN  IF local_interval > 0 /\ onset < beats[beat_idx + 2]
                 THEN <<[phase |-> Mod1(Frac(onset - beat_start, local_interval)),
                         beat_idx |-> beat_idx]>>
                 ELSE <<>>
        ELSE <<>>

\* the body of the phase loop for one onset: the sample it appends, if any
PhaseOf(beats, onset) ==
    LET beat_idx == SearchSorted(beats, onset) - 1
    IN  IF 0 <= beat_idx /\ beat_idx < Len(beats) - 1
        THEN LET beat_start == beats[beat_idx + 1]
                 local_interval == beats[beat_idx + 2] - beat_start
             IN  IF local_interval > 0
                 THEN <<[phase |-> Mod1(Frac(onset - beat_start, local_interval)),
                         beat_idx |-> beat_idx]>>
                 ELSE <<>>
        ELSE <<>>

RECURSIVE PhaseSamples(_, _)
\* the phase loop over all onsets
PhaseSamples(beats, onsets) ==
    IF onsets = <<>> THEN <<>>
    ELSE PhaseOf(beats, Head(onsets)) \o PhaseSamples(beats, Tail(onsets))

\* np.mean(np.abs(window - offbeat_phase) < phase_tolerance)
NearRatio(window, offbeat_phase) ==
    Frac(Cardinality({k \in 1..Len(window) :
                        FLt(FAbs(FSub(window[k], offbeat_phase)), phase_tolerance)}),
         Len(window))

\* np.mean((window < phase_tolerance) | (window > 1.0 - phase_tolerance))
OnbeatRatio(window) ==
    Frac(Cardinality({k \in 1..Len(window) :
                        \/ FLt(window[k], phase_tolerance)
                        \/ FLt(FSub(FromInt(1), phase_tolerance), window[k])}),
         Len(window))

\* Python slice s[a:b], 0 <= a <= b
Slice(s, a, b) == SubSeq(s, a + 1, IF b < Len(s) THEN b ELSE Len(s))

\* the events one candidate offbeat phase appends in window w
OffbeatEvents(phases, idxs, w, offbeat_phase) ==
    IF FLt(Frac(6, 10), NearRatio(Slice(phases, w, w + window_size), offbeat_phase))
    THEN IF w >= window_size
         THEN IF FLt(NearRatio(Slice(phases, w - window_size, w), offbeat_phase),
                     Frac(4, 10))
              THEN <<[beat_idx |-> idxs[w + 1], phase |-> offbeat_phase,
                      type |-> "to_offbeat"]>>
              ELSE <<>>
         ELSE IF w = 0
              THEN <<[beat_idx |-> 0, phase |-> offbeat_phase, type |-> "start_offbeat"]>>
              ELSE <<>>
    ELSE <<>>

\* the event the back-to-on-beat test appends in window w
OnbeatEvents(phases, idxs, w) ==
    IF /\ FLt(Frac(6, 10), OnbeatRatio(Slice(phases, w, w + window_size)))
       /\ w >= window_size
       /\ \E o \in 1..Len(offbeat_phases) :
            FLt(Frac(5, 10),
                NearRatio(Slice(phases, w - window_size, w), offbeat_phases[o]))
    THEN <<[beat_idx |-> idxs[w + 1], phase |-> FromInt(0), type |-> "to_onbeat"]>>
    ELSE <<>>

\* one iteration of the window loop
WindowEvents(phases, idxs, w) ==
    OffbeatEvents(phases, idxs, w, offbeat_phases[1])
        \o OffbeatEvents(phases, idxs, w, offbeat_phases[2])
        \o OffbeatEvents(phases, idxs, w, offbeat_phases[3])
        \o OnbeatEvents(phases, idxs, w)

RECURSIVE DetectFrom(_, _, _)
\* for i in range(len(onset_phases) - window_size), from i = w on
DetectFrom(phases, idxs, w) ==
    IF w >= Len(phases) - window_size THEN <<>>
    ELSE WindowEvents(phases, idxs, w) \o DetectFrom(phases, idxs, w + 1)

RECURSIVE UniqueFrom(_, _)
\* keep the first shift of every beat_idx
UniqueFrom(shifts, seen_beats) ==
    IF shifts = <<>> THEN <<>>
    ELSE IF Head(shifts).beat_idx \in seen_beats
         THEN UniqueFrom(Tail(shifts), seen_beats)
         ELSE <<Head(shifts)>>
                \o UniqueFrom(Tail(shifts), seen_beats \cup {Head(shifts).beat_idx})

\* sorted(unique_shifts, key=lambda x: x['beat_idx'])
SortedShifts(shifts) == SortSeq(shifts, LAMBDA a, b : a.beat_idx < b.beat_idx)

\* np.argmin over the distances of the onsets to frame (0-based, first minimum)
NearestOnset(onsets, frame) ==
    CHOOSE n \in 0..(Len(onsets) - 1) :
        /\ \A m \in 0..(Len(onsets) - 1) :
                FLeq(FAbs(FSub(FromInt(onsets[n + 1]), frame)),
                     FAbs(FSub(FromInt(onsets[m + 1]), frame)))
        /\ \A m \in 0..(n - 1) :
                FLt(FAbs(FSub(FromInt(onsets[n + 1]), frame)),
                    FAbs(FSub(FromInt(onsets[m + 1]), frame)))

OffbeatFrameAlwaysSnapped(beats, onsets, shift) ==
    LET beat_start == beats[shift.beat_idx + 1]
        local_interval == beats[shift.beat_idx + 2] - beat_start
        offbeat_frame == FAdd(FromInt(beat_start),
                              FMul(shift.phase, FromInt(local_interval)))
    IN  IF Len(onsets) > 0
        THEN FromInt(onsets[NearestOnset(onsets, offbeat_frame) + 1])
        ELSE offbeat_frame

\* the frame inserted for a shift with phase > 0.01
OffbeatFrame(beats, onsets, shift) ==
    LET beat_start == beats[shift.beat_idx + 1]
        local_interval == beats[shift.beat_idx + 2] - beat_start
        offbeat_frame == FAdd(FromInt(beat_start),
                              FMul(shift.phase, FromInt(local_interval)))
    IN  IF Len(onsets) > 0
        THEN LET nearest_idx == NearestOnset(onsets, offbeat_frame)
             IN  IF FLt(FAbs(FSub(FromInt(onsets[nearest_idx + 1]), offbeat_frame)),
                        FMul(FromInt(local_interval), Frac(2, 10)))
                 THEN FromInt(onsets[nearest_idx + 1])
                 ELSE offbeat_frame
        ELSE offbeat_frame

ListInsertOverwriting(list, pos, x) ==
    IF pos < Len(list) THEN [list EXCEPT ![pos + 1] = x] ELSE Append(list, x)

\* list.insert(pos, x)
ListInsert(list, pos, x) ==
    LET at == IF pos > Len(list) THEN Len(list) ELSE pos
    IN  SubSeq(list, 1, at) \o <<x>> \o SubSeq(list, at + 1, Len(list))

RECURSIVE SortedFloats(_)
\* sorted(S) for a finite set of floats
SortedFloats(S) ==
    IF S = {} THEN <<>>
    ELSE LET m == CHOOSE x \in S : \A y \in S : FLeq(x, y)
         IN  <<m>> \o SortedFloats(S \ {m})

SortedOnly(list) == SortSeq(list, FLt)

\* sorted(set(new_beats))
SortedSet(list) == SortedFloats(Range(list))

-----------------------------------------------------------------------------
(* detect_and_insert_offbeats: steps                                       *)

InitOffbeat ==
    /\ fn = "detect_and_insert_offbeats" /\ pc = "start"
    /\ beat_frames \in BeatInputs
    /\ onset_frames \in OnsetInputs
    /\ onset_phases = <<>> /\ onset_beat_indices = <<>>
    /\ phase_shifts = <<>> /\ unique_shifts = <<>> /\ shift_pos = 0
    /\ new_beats = <<>> /\ inserted_count = 0 /\ returned = <<>>
    /\ return_path = "none"
    /\ StabilizeIdle
    /\ OtherIdle

\* if len(beat_frames) < 4 or len(onset_frames) < 4: return beat_frames
OffbeatTooLittleData ==
    /\ fn = "detect_and_insert_offbeats" /\ pc = "start"
    /\ TooLittleData(beat_frames, onset_frames)
    /\ returned' = PassThrough(beat_frames)
    /\ return_path' = "too_little_data"
    /\ pc' = "done"
    /\ UNCHANGED <<fn, beat_frames, onset_frames, onset_phases, onset_beat_indices,
                   phase_shifts, unique_shifts, shift_pos, new_beats, inserted_count>>
    /\ UNCHANGED <<stabVars, otherVars>>

\* if beat_interval <= 0: return beat_frames
OffbeatNoInterval ==
    /\ fn = "detect_and_insert_offbeats" /\ pc = "start"
    /\ ~TooLittleData(beat_frames, onset_frames)
    /\ FLeq(Median(Diff(beat_frames)), FromInt(0))
    /\ returned' = AsFloats(beat_frames)
    /\ return_path' = "no_interval"
    /\ pc' = "done"
    /\ UNCHANGED <<fn, beat_frames, onset_frames, onset_phases, onset_beat_indices,
                   phase_shifts, unique_shifts, shift_pos, new_beats, inserted_count>>
    /\ UNCHANGED <<stabVars, otherVars>>

\* the phase loop
ComputePhases ==
    /\ fn = "detect_and_insert_offbeats" /\ pc = "start"
    /\ ~TooLittleData(beat_frames, onset_frames)
    /\ FLt(FromInt(0), Median(Diff(beat_frames)))
    /\ LET samples == PhaseSamples(beat_frames, onset_frames)
       IN  /\ onset_phases' = [k \in 1..Len(samples) |-> samples[k].phase]
           /\ onset_beat_indices' = [k \in 1..Len(samples) |-> samples[k].beat_idx]
    /\ pc' = "phases"
    /\ UNCHANGED <<fn, beat_frames, onset_frames, phase_shifts, unique_shifts,
                   shift_pos, new_beats, inserted_count, returned, return_path>>
    /\ UNCHANGED <<stabVars, otherVars>>

\* if len(onset_phases) < 4: return beat_frames
OffbeatFewPhases ==
    /\ fn = "detect_and_insert_offbeats" /\ pc = "phases"
    /\ Len(onset_phases) < 4
    /\ returned' = AsFloats(beat_frames)
    /\ return_path' = "few_phases"
    /\ pc' = "done"
    /\ UNCHANGED <<fn, beat_frames, onset_frames, onset_phases, onset_beat_indices,
                   phase_shifts, unique_shifts, shift_pos, new_beats, inserted_count>>
    /\ UNCHANGED <<stabVars, otherVars>>

\* the window loop and the removal of duplicate shifts
DetectShifts ==
    /\ fn = "detect_and_insert_offbeats" /\ pc = "phases"
    /\ Len(onset_phases) >= 4
    /\ phase_shifts' = DetectFrom(onset_phases, onset_beat_indices, 0)
    /\ unique_shifts' = UniqueFrom(phase_shifts', {})
    /\ pc' = "shifts"
    /\ UNCHANGED <<fn, beat_frames, onset_frames, onset_phases, onset_beat_indices,
                   shift_pos, new_beats, inserted_count, returned, return_path>>
    /\ UNCHANGED <<stabVars, otherVars>>

\* if not unique_shifts: return beat_frames
OffbeatNoShifts ==
    /\ fn = "detect_and_insert_offbeats" /\ pc = "shifts"
    /\ unique_shifts = <<>>
    /\ returned' = AsFloats(beat_frames)
    /\ return_path' = "no_shifts"
    /\ pc' = "done"
    /\ UNCHANGED <<fn, beat_frames, onset_frames, onset_phases, onset_beat_indices,
                   phase_shifts, unique_shifts, shift_pos, new_beats, inserted_count>>
    /\ UNCHANGED <<stabVars, otherVars>>

\* new_beats = list(beat_frames); the loop iterates over the sorted shifts
BeginInsert ==
    /\ fn = "detect_and_insert_offbeats" /\ pc = "shifts"
    /\ unique_shifts # <<>>
    /\ new_beats' = AsFloats(beat_frames)
    /\ inserted_count' = 0
    /\ unique_shifts' = SortedShifts(unique_shifts)
    /\ shift_pos' = 0
    /\ pc' = "insert"
    /\ UNCHANGED <<fn, beat_frames, onset_frames, onset_phases, onset_beat_indices,
                   phase_shifts, returned, return_path>>
    /\ UNCHANGED <<stabVars, otherVars>>

\* loop body: beat_idx out of range (continue) or phase <= 0.01 (nothing to insert)
InsertSkip ==
    /\ fn = "detect_and_insert_offbeats" /\ pc = "insert"
    /\ shift_pos < Len(unique_shifts)
    /\ LET shift == unique_shifts[shift_pos + 1]
       IN  \/ shift.beat_idx < 0
           \/ shift.beat_idx >= Len(beat_frames) - 1
           \/ ~FLt(Frac(1, 100), shift.phase)
    /\ shift_pos' = shift_pos + 1
    /\ UNCHANGED <<fn, pc, beat_frames, onset_frames, onset_phases, onset_beat_indices,
                   phase_shifts, unique_shifts, new_beats, inserted_count, returned,
                   return_path>>
    /\ UNCHANGED <<stabVars, otherVars>>

\* loop body: insert the offbeat frame after its beat
InsertOffbeat ==
    /\ fn = "detect_and_insert_offbeats" /\ pc = "insert"
    /\ shift_pos < Len(unique_shifts)
    /\ LET shift == unique_shifts[shift_pos + 1]
       IN  /\ shift.beat_idx >= 0
           /\ shift.beat_idx < Len(beat_frames) - 1
           /\ FLt(Frac(1, 100), shift.phase)
           /\ new_beats' = ListInsert(new_beats, shift.beat_idx + 1 + inserted_count,
                                      OffbeatFrame(beat_frames, onset_frames, shift))
    /\ inserted_count' = inserted_count + 1
    /\ shift_pos' = shift_pos + 1
    /\ UNCHANGED <<fn, pc, beat_frames, onset_frames, onset_phases, onset_beat_indices,
                   phase_shifts, unique_shifts, returned, return_path>>
    /\ UNCHANGED <<stabVars, otherVars>>

\* new_beats = sorted(set(new_beats)); return np.array(new_beats)
SortAndReturn ==
    /\ fn = "detect_and_insert_offbeats" /\ pc = "insert"
    /\ shift_pos = Len(unique_shifts)
    /\ returned' = SortedSet(new_beats)
    /\ return_path' = "inserted"
    /\ pc' = "done"
    /\ UNCHANGED <<fn, beat_frames, onset_frames, onset_phases, onset_beat_indices,
                   phase_shifts, unique_shifts, shift_pos, new_beats, inserted_count>>
    /\ UNCHANGED <<stabVars, otherVars>>

NextOffbeat ==
    \/ OffbeatTooLittleData
    \/ OffbeatNoInterval
    \/ ComputePhases
    \/ OffbeatFewPhases
    \/ DetectShifts
    \/ OffbeatNoShifts
    \/ BeginInsert
    \/ InsertSkip
    \/ InsertOffbeat
    \/ SortAndReturn

SpecOffbeat == InitOffbeat /\ [][NextOffbeat]_vars

-----------------------------------------------------------------------------
(* frames_to_time_precise: inputs                                          *)

MaxEnvLen == 3          \* longest envelope drawn
MaxEnvValue == 4        \* envelope values drawn are 0..MaxEnvValue, in units of 1e-8
MaxTimeFrames == 2      \* longest frame sequence drawn
FrameSpan == 2          \* frames drawn are the quarter frames in 0..FrameSpan

hop_length == 128
sample_rate == 44100
epsilon == 1            \* the 1e-8 of the parabola's denominator, in envelope units

EnvInputs == SeqsUpTo(0..MaxEnvValue, MaxEnvLen)

\* Strictly increasing frame sequences. The offbeat stage inserts frames at
\* beat_start + phase * local_interval with phase 1/4, 1/2 or 3/4, so frames
\* are multiples of a quarter frame.
FrameInputs ==
    {f \in SeqsUpTo({Frac(q, 4) : q \in 0..(4 * FrameSpan)}, MaxTimeFrames) :
        Len(f) >= 1 /\ StrictlyIncreasing(f)}

-----------------------------------------------------------------------------
(* frames_to_time_precise: helpers                                         *)

\* int(x) for x >= 0
Truncate(x) == x[1] \div x[2]

\* 1 <= frame_int < len(onset_env) - 1
HasNeighbours(env, frame_int) == 1 <= frame_int /\ frame_int < Len(env) - 1

\* beta > alpha and beta > gamma
IsStrictPeak(env, frame_int) ==
    /\ env[frame_int + 1] > env[frame_int]
    /\ env[frame_int + 1] > env[frame_int + 2]

\* p = 0.5 * (alpha - gamma) / (alpha - 2 * beta + gamma + 1e-8)
ParabolicOffset(alpha, beta, gamma) ==
    FMul(Frac(1, 2), Frac(alpha - gamma, alpha - 2 * beta + gamma + epsilon))

\* time = refined_frame * hop_length / sr
FrameToTime(refined_frame) ==
    FDiv(FMul(refined_frame, FromInt(hop_length)), FromInt(sample_rate))

-----------------------------------------------------------------------------
(* frames_to_time_precise: steps                                           *)

InitTime ==
    /\ fn = "frames_to_time_precise" /\ pc = "loop"
    /\ frames \in FrameInputs
    /\ onset_env \in EnvInputs
    /\ times = <<>> /\ frame_pos = 0
    /\ refined = <<>> /\ refine_pos = 0
    /\ StabilizeIdle
    /\ OffbeatIdle

\* loop body at a strict local peak: refined_frame = frame_int + p
InterpolatePeak ==
    /\ fn = "frames_to_time_precise" /\ pc = "loop"
    /\ frame_pos < Len(frames)
    /\ LET frame == frames[frame_pos + 1]
           frame_int == Truncate(frame)
       IN  /\ HasNeighbours(onset_env, frame_int)
           /\ IsStrictPeak(onset_env, frame_int)
           /\ times' = Append(times,
                FrameToTime(FAdd(FromInt(frame_int),
                                 ParabolicOffset(onset_env[frame_int],
                                                 onset_env[frame_int + 1],
                                                 onset_env[frame_int + 2]))))
    /\ frame_pos' = frame_pos + 1
    /\ UNCHANGED <<fn, pc, frames, onset_env, refined, refine_pos>>
    /\ UNCHANGED <<stabVars, offVars>>

\* loop body elsewhere: refined_frame = float(frame)
KeepFrame ==
    /\ fn = "frames_to_time_precise" /\ pc = "loop"
    /\ frame_pos < Len(frames)
    /\ LET frame == frames[frame_pos + 1]
           frame_int == Truncate(frame)
       IN  /\ ~(HasNeighbours(onset_env, frame_int) /\ IsStrictPeak(onset_env, frame_int))
           /\ times' = Append(times, FrameToTime(frame))
    /\ frame_pos' = frame_pos + 1
    /\ UNCHANGED <<fn, pc, frames, onset_env, refined, refine_pos>>
    /\ UNCHANGED <<stabVars, offVars>>

\* return np.array(times)
ReturnTimes ==
    /\ fn = "frames_to_time_precise" /\ pc = "loop"
    /\ frame_pos = Len(frames)
    /\ pc' = "done"
    /\ UNCHANGED <<fn, frames, onset_env, times, frame_pos, refined, refine_pos>>
    /\ UNCHANGED <<stabVars, offVars>>

NextTime ==
    \/ InterpolatePeak
    \/ KeepFrame
    \/ ReturnTimes

SpecTime == InitTime /\ [][NextTime]_vars

-----------------------------------------------------------------------------
(* refine_beats_to_onsets_advanced: inputs                                 *)

MaxRefFrame == 5        \* coarse beats and onsets are drawn from 0..MaxRefFrame
FarFrame == 24          \* and a far beat, which widens the search window
MaxRefBeats == 2        \* longest coarse beat sequence drawn
MaxRefOnsets == 2       \* most onsets drawn
MaxRefEnvLen == 3       \* longest envelope drawn; its values are 0 or 1

\* the strictly increasing sequences over S of length lo..hi
AscendingSeqs(S, lo, hi) ==
    {Ascending(T) : T \in {U \in SUBSET S : Cardinality(U) >= lo /\ Cardinality(U) <= hi}}

CoarseBeatInputs == AscendingSeqs(0..MaxRefFrame \cup {FarFrame}, 1, MaxRefBeats)
RefOnsetInputs == AscendingSeqs(0..MaxRefFrame, 0, MaxRefOnsets)
RefEnvInputs == SeqsUpTo({0, 1}, MaxRefEnvLen)

-----------------------------------------------------------------------------
(* refine_beats_to_onsets_advanced: helpers                                *)

Max(a, b) == IF a > b THEN a ELSE b
Min(a, b) == IF a < b THEN a ELSE b

\* max(4, int(avg_beat_interval / 4)), avg_beat_interval the median spacing or 100
SearchWindow(beats) ==
    LET avg_beat_interval == IF Len(beats) > 1 THEN Median(Diff(beats)) ELSE FromInt(100)
    IN  Max(4, Truncate(FDiv(avg_beat_interval, FromInt(4))))

\* the nearest onset is within the search window of the beat
SnapsToOnset(onsets, frame, search_window) ==
    /\ Len(onsets) > 0
    /\ Abs(onsets[NearestOnset(onsets, FromInt(frame)) + 1] - frame) <= search_window

\* np.argmax(env[start:end]) for start < end: the first maximum, relative to start
ArgMax(env, start, end) ==
    CHOOSE n \in 0..(end - start - 1) :
        /\ \A m \in 0..(end - start - 1) : env[start + n + 1] >= env[start + m + 1]
        /\ \A m \in 0..(n - 1) : env[start + n + 1] > env[start + m + 1]

FallbackWithoutStart(env, frame, search_window) ==
    LET start == Max(0, frame - search_window)
        end == Min(Len(env), frame + search_window + 1)
    IN  IF start < end THEN ArgMax(env, start, end) ELSE frame

\* the fallback: the local envelope maximum in the window, or the beat itself
Fallback(env, frame, search_window) ==
    LET start == Max(0, frame - search_window)
        end == Min(Len(env), frame + search_window + 1)
    IN  IF start < end THEN start + ArgMax(env, start, end) ELSE frame

-----------------------------------------------------------------------------
(* refine_beats_to_onsets_advanced: steps                                  *)

InitRefine ==
    /\ fn = "refine_beats_to_onsets_advanced" /\ pc = "loop"
    /\ beat_frames \in CoarseBeatInputs
    /\ onset_frames \in RefOnsetInputs
    /\ onset_env \in RefEnvInputs
    /\ refined = AsFloats(beat_frames)
    /\ refine_pos = 0
    /\ onset_phases = <<>> /\ onset_beat_indices = <<>>
    /\ phase_shifts = <<>> /\ unique_shifts = <<>> /\ shift_pos = 0
    /\ new_beats = <<>> /\ inserted_count = 0 /\ returned = <<>>
    /\ return_path = "none"
    /\ frames = <<>> /\ times = <<>> /\ frame_pos = 0
    /\ StabilizeIdle

\* loop body: snap the beat to the nearest onset
SnapToOnset ==
    /\ fn = "refine_beats_to_onsets_advanced" /\ pc = "loop"
    /\ refine_pos < Len(beat_frames)
    /\ LET frame == beat_frames[refine_pos + 1]
       IN  /\ SnapsToOnset(onset_frames, frame, SearchWindow(beat_frames))
           /\ refined' = [refined EXCEPT ![refine_pos + 1] =
                FromInt(onset_frames[NearestOnset(onset_frames, FromInt(frame)) + 1])]
    /\ refine_pos' = refine_pos + 1
    /\ UNCHANGED <<fn, pc, beat_frames, onset_frames, onset_env>>
    /\ UNCHANGED <<onset_phases, onset_beat_indices, phase_shifts, unique_shifts,
                   shift_pos, new_beats, inserted_count, returned, return_path,
                   frames, times, frame_pos, stabVars>>

\* loop body: no onset within the window, fall back on the envelope
SnapToPeak ==
    /\ fn = "refine_beats_to_onsets_advanced" /\ pc = "loop"
    /\ refine_pos < Len(beat_frames)
    /\ LET frame == beat_frames[refine_pos + 1]
       IN  /\ ~SnapsToOnset(onset_frames, frame, SearchWindow(beat_frames))
           /\ refined' = [refined EXCEPT ![refine_pos + 1] =
                FromInt(Fallback(onset_env, frame, SearchWindow(beat_frames)))]
    /\ refine_pos' = refine_pos + 1
    /\ UNCHANGED <<fn, pc, beat_frames, onset_frames, onset_env>>
    /\ UNCHANGED <<onset_phases, onset_beat_indices, phase_shifts, unique_shifts,
                   shift_pos, new_beats, inserted_count, returned, return_path,
                   frames, times, frame_pos, stabVars>>

\* return refined
ReturnRefined ==
    /\ fn = "refine_beats_to_onsets_advanced" /\ pc = "loop"
    /\ refine_pos = Len(beat_frames)
    /\ pc' = "done"
    /\ UNCHANGED <<fn, beat_frames, onset_frames, onset_env, refined, refine_pos>>
    /\ UNCHANGED <<onset_phases, onset_beat_indices, phase_shifts, unique_shifts,
                   shift_pos, new_beats, inserted_count, returned, return_path,
                   frames, times, frame_pos, stabVars>>

NextRefine ==
    \/ SnapToOnset
    \/ SnapToPeak
    \/ ReturnRefined

SpecRefine == InitRefine /\ [][NextRefine]_vars

-----------------------------------------------------------------------------
(* stabilize_bpm_sections: properties                                      *)

StabilizeDone == fn = "stabilize_bpm_sections" /\ pc = "done" /\ Len(bpms) >= 2

\* the instantaneous BPMs at indices start_idx..end_idx
Covered(section) == {bpms[k + 1] : k \in section.start_idx..section.end_idx}

InRange(section) ==
    /\ \E lo \in Covered(section) : FLeq(FromInt(lo), section.bpm)
    /\ \E hi \in Covered(section) : FLeq(section.bpm, FromInt(hi))

\* C4: every BPM value returned lies between the minimum and the maximum of
\* the instantaneous BPM values at indices start_idx..end_idx of the (possibly
\* merged) section it summarizes; the same holds of every section while the
\* merge loop runs.
C4_BpmWithinRange ==
    /\ (fn = "stabilize_bpm_sections" /\ pc = "merge") =>
            \A k \in 1..Len(merged_sections) : InRange(merged_sections[k])
    /\ StabilizeDone =>
            /\ Len(stabilized_bpms) = Len(merged_sections)
            /\ \A k \in 1..Len(stabilized_bpms) :
                    InRange([merged_sections[k] EXCEPT !.bpm = stabilized_bpms[k]])

\* a returned BPM of a merged section, strictly inside the range it covers
C4_Witness ==
    /\ StabilizeDone
    /\ Len(merged_sections) < Len(sections)
    /\ \E k \in 1..Len(stabilized_bpms) :
            /\ \E lo \in Covered(merged_sections[k]) : FLt(FromInt(lo), stabilized_bpms[k])
            /\ \E hi \in Covered(merged_sections[k]) : FLt(stabilized_bpms[k], FromInt(hi))

\* C5 (as claimed): the merge pass is idempotent; applied to the section list
\* it has produced it yields the same list, i.e. no two adjacent surviving
\* sections have BPMs within tolerance of each other.
C5_MergeIdempotent ==
    StabilizeDone =>
        /\ MergePass(merged_sections, tolerance) = merged_sections
        /\ \A k \in 1..(Len(merged_sections) - 1) :
                ~WithinTolerance(merged_sections[k + 1].bpm, merged_sections[k].bpm,
                                 tolerance)

\* C6: one (time, bpm) pair per surviving section, the time being
\* beat_times[start_idx]; the surviving sections tile 0..len(bpms)-1; one
\* trailing time, the beat time after the final section's end, so that times
\* is one longer than bpms; and scenario C gives sections 0..2 at 120.5 and
\* 3..4 at 150.1.
C6_OnePointPerSection ==
    (StabilizeDone /\ Len(beat_times) = Len(bpms) + 1) =>
        /\ Len(stabilized_bpms) = Len(merged_sections)
        /\ Len(stabilized_times) = Len(stabilized_bpms) + 1
        /\ \A k \in 1..Len(merged_sections) :
                /\ stabilized_times[k] = beat_times[merged_sections[k].start_idx + 1]
                /\ stabilized_bpms[k] = merged_sections[k].bpm
                /\ merged_sections[k].start_idx <= merged_sections[k].end_idx
                /\ merged_sections[k].start_idx =
                        IF k = 1 THEN 0 ELSE merged_sections[k - 1].end_idx + 1
        /\ Last(merged_sections).end_idx = Len(bpms) - 1
        /\ Last(stabilized_times) = beat_times[Last(merged_sections).end_idx + 2]
        /\ Last(stabilized_times) = Last(beat_times)
        /\ (bpms = ScenarioC /\ tolerance = 20) =>
                /\ stabilized_bpms = <<Frac(1205, 1), Frac(1501, 1)>>
                /\ stabilized_times = <<beat_times[1], beat_times[4], beat_times[6]>>
                /\ merged_sections[1].end_idx = 2

\* scenario C has run to its end
C6_Witness ==
    /\ StabilizeDone /\ Len(beat_times) = Len(bpms) + 1
    /\ bpms = ScenarioC /\ tolerance = 20
    /\ Len(stabilized_bpms) = 2 /\ Len(stabilized_times) = 3

\* the merge loop is about to merge sections[merge_pos] into the last merged section
MergeApplies ==
    /\ fn = "stabilize_bpm_sections" /\ pc = "merge"
    /\ merge_pos < Len(sections)
    /\ merged_sections # <<>>
    /\ WithinTolerance(sections[merge_pos + 1].bpm, Last(merged_sections).bpm, tolerance)

Count(section) == section.end_idx - section.start_idx + 1

CountWeighted(P, S) ==
    FDiv(FAdd(FMul(P.bpm, FromInt(Count(P))), FMul(S.bpm, FromInt(Count(S)))),
         FromInt(Count(P) + Count(S)))

\* C9 (as claimed): a merge of the previous section P with the next section S
\* gives the BPM (P.bpm * |P| + S.bpm * |S|) / (|P| + |S|), with |P| and |S|
\* the sample counts before the merge, over P.start_idx..S.end_idx.
C9_CountWeightedMerge ==
    [][MergeApplies =>
        LET P == Last(merged_sections)
            S == sections[merge_pos + 1]
            M == Last(merged_sections')
        IN  /\ Len(merged_sections') = Len(merged_sections)
            /\ M.start_idx = P.start_idx
            /\ M.end_idx = S.end_idx
            /\ M.bpm = CountWeighted(P, S)]_vars

-----------------------------------------------------------------------------
(* detect_and_insert_offbeats: properties                                  *)

OffbeatDone == fn = "detect_and_insert_offbeats" /\ pc = "done"

HasRepeats(s) == \E k \in 1..(Len(s) - 1) : s[k] = s[k + 1]

\* C1 (as claimed): for every input, whichever return path is taken, the
\* returned beat sequence is strictly increasing, without duplicate values.
C1_AlwaysStrictlyIncreasing == OffbeatDone => StrictlyIncreasing(returned)

\* C1 (amended): the returned sequence is strictly increasing, without
\* duplicates, on the insertion path for every input, and on every
\* pass-through path when the input beat frames are strictly increasing.
C1_StrictlyIncreasing ==
    OffbeatDone =>
        ((return_path = "inserted" \/ StrictlyIncreasing(AsFloats(beat_frames)))
            => StrictlyIncreasing(returned))

\* the insertion path has returned for beats with a repeated frame
C1_Witness ==
    /\ OffbeatDone /\ return_path = "inserted"
    /\ HasRepeats(beat_frames)
    /\ Len(returned) >= 4

\* C2 (as claimed): for every input, repeated frame values included, the
\* returned sequence is at least as long as the input beat sequence.
C2_NeverShorter == OffbeatDone => Len(returned) >= Len(beat_frames)

\* C2 (amended): every input frame value is still present in the returned
\* sequence, and for strictly increasing input beats the returned sequence is
\* at least as long as the input; it is longer by the number of insertions.
C2_NoBeatLost ==
    OffbeatDone =>
        /\ Range(AsFloats(beat_frames)) \subseteq Range(returned)
        /\ StrictlyIncreasing(AsFloats(beat_frames)) =>
                /\ Len(returned) >= Len(beat_frames)
                /\ return_path = "inserted" =>
                        Len(returned) = Len(beat_frames) + inserted_count

\* the insertion path has returned a longer sequence for strictly increasing beats
C2_Witness ==
    /\ OffbeatDone /\ return_path = "inserted"
    /\ StrictlyIncreasing(AsFloats(beat_frames))
    /\ inserted_count >= 1
    /\ Len(returned) > Len(beat_frames)

\* C3: with fewer than 4 beats or fewer than 4 onsets the function returns the
\* input beat sequence element for element, by its first return statement.
C3_TooLittleDataIsIdentity ==
    (OffbeatDone /\ (Len(beat_frames) < 4 \/ Len(onset_frames) < 4)) =>
        /\ return_path = "too_little_data"
        /\ Len(returned) = Len(beat_frames)
        /\ \A k \in 1..Len(beat_frames) : returned[k] = FromInt(beat_frames[k])

\* at least 4 beats with a repeated frame, fewer than 4 (but some) onsets
C3_Witness ==
    /\ OffbeatDone
    /\ Len(beat_frames) >= 4 /\ HasRepeats(beat_frames)
    /\ Len(onset_frames) < 4 /\ Len(onset_frames) > 0
    /\ Len(returned) = Len(beat_frames)

PhasesComputed == fn = "detect_and_insert_offbeats" /\ pc = "phases"

\* the onsets (in order) that have a beat interval k satisfying In(onset, k)
Kept(In(_, _)) ==
    LET keep(o) == \E k \in 0..(Len(beat_frames) - 2) : In(o, k)
        F[n \in 0..Len(onset_frames)] ==
            IF n = 0 THEN <<>>
            ELSE IF keep(onset_frames[n]) THEN Append(F[n - 1], onset_frames[n])
                 ELSE F[n - 1]
    IN  F[Len(onset_frames)]

StrictlyInside(o, k) == beat_frames[k + 1] < o /\ o < beat_frames[k + 2]
AfterStartUpToEnd(o, k) == beat_frames[k + 1] < o /\ o <= beat_frames[k + 2]

\* the samples are those of the onsets `kept`, each with the index k of its
\* interval and the phase (onset - beat[k]) / (beat[k+1] - beat[k]) mod 1
SamplesAre(kept, In(_, _)) ==
    /\ Len(onset_phases) = Len(kept)
    /\ Len(onset_beat_indices) = Len(kept)
    /\ \A j \in 1..Len(kept) :
        LET k == onset_beat_indices[j]
        IN  /\ k \in 0..(Len(beat_frames) - 2)
            /\ In(kept[j], k)
            /\ onset_phases[j] =
                    Mod1(Frac(kept[j] - beat_frames[k + 1],
                              beat_frames[k + 2] - beat_frames[k + 1]))
            /\ FLeq(FromInt(0), onset_phases[j])
            /\ FLt(onset_phases[j], FromInt(1))

\* C10 (as claimed): an onset contributes a phase sample only if it falls
\* strictly inside a beat interval; onsets that coincide with a beat frame, lie
\* before the first beat or at or after the last beat are discarded.
C10_OnlyStrictlyInside ==
    PhasesComputed => SamplesAre(Kept(StrictlyInside), StrictlyInside)

\* C10 (amended): an onset contributes a phase sample exactly if
\* beat[k] < onset <= beat[k+1] for some k: an onset on beat k+1 is kept, with
\* phase 0 and beat index k; onsets at or before the first beat or after the
\* last beat are discarded; every phase is in [0,1).
C10_InsideOrOnNextBeat ==
    PhasesComputed =>
        LET kept == Kept(AfterStartUpToEnd)
        IN  /\ SamplesAre(kept, AfterStartUpToEnd)
            /\ \A j \in 1..Len(kept) :
                LET k == onset_beat_indices[j]
                IN  IF kept[j] = beat_frames[k + 2]
                    THEN onset_phases[j] = FromInt(0)
                    ELSE /\ StrictlyInside(kept[j], k)
                         /\ FLt(FromInt(0), onset_phases[j])
                         /\ onset_phases[j] =
                                Frac(kept[j] - beat_frames[k + 1],
                                     beat_frames[k + 2] - beat_frames[k + 1])

\* an onset on a beat was kept with phase 0, an onset on the first beat and an
\* onset after the last beat were discarded
C10_Witness ==
    /\ PhasesComputed
    /\ \E j \in 1..Len(onset_phases) : onset_phases[j] = FromInt(0)
    /\ \E j \in 1..Len(onset_phases) : onset_phases[j] = Frac(1, 2)
    /\ \E n \in 1..Len(onset_frames) : onset_frames[n] = beat_frames[1]
    /\ \E n \in 1..Len(onset_frames) : onset_frames[n] > Last(beat_frames)
    /\ Len(onset_phases) < Len(onset_frames)

ShiftsDetected == fn = "detect_and_insert_offbeats" /\ pc = "shifts"

\* more than 60% of the first window_size phase samples are within
\* phase_tolerance of the candidate offbeat phase
FirstWindowNear(offbeat_phase) ==
    /\ Len(onset_phases) >= window_size
    /\ FLt(Frac(6, 10),
           NearRatio(Slice(onset_phases, 0, window_size), offbeat_phase))

StartOffbeatRecorded(offbeat_phase) ==
    \E s \in 1..Len(phase_shifts) :
        phase_shifts[s] = [beat_idx |-> 0, phase |-> offbeat_phase,
                           type |-> "start_offbeat"]

\* C11: whenever at least 8 phase samples remain and more than 60% of the
\* first 8 samples are within 0.15 of a candidate offbeat phase, the first
\* window is examined and a start_offbeat event at beat index 0 is recorded,
\* also when exactly 8 phase samples exist.
C11_FirstWindowExamined ==
    ShiftsDetected =>
        \A o \in 1..Len(offbeat_phases) :
            FirstWindowNear(offbeat_phases[o])
                => StartOffbeatRecorded(offbeat_phases[o])

InsertLoop ==
    /\ fn = "detect_and_insert_offbeats"
    /\ pc = "insert" \/ (pc = "done" /\ return_path = "inserted")

\* the event passes both tests of the loop body: index in range, phase > 0.01
Inserting(shift) ==
    /\ shift.beat_idx >= 0
    /\ shift.beat_idx < Len(beat_frames) - 1
    /\ FLt(Frac(1, 100), shift.phase)

\* the number of processed inserting events whose beat index is below k
InsertedBefore(k) ==
    Cardinality({s \in 1..shift_pos :
                    /\ Inserting(unique_shifts[s])
                    /\ unique_shifts[s].beat_idx < k})

\* C12: with strictly increasing input beats the events are processed in
\* strictly ascending beat index; every processed event with phase > 0.01 and
\* an index in range has inserted exactly one frame, immediately after original
\* beat k and before original beat k+1, with a value strictly between the two;
\* the other events inserted nothing and left the running offset alone. So the
\* sequence is strictly ascending before the final sort, which changes
\* nothing, and every original beat is in the output.
C12_InsertionKeepsOrder ==
    (InsertLoop /\ StrictlyIncreasing(AsFloats(beat_frames))) =>
        /\ \A s \in 1..(Len(unique_shifts) - 1) :
                unique_shifts[s].beat_idx < unique_shifts[s + 1].beat_idx
        /\ inserted_count = InsertedBefore(Len(beat_frames))
        /\ Len(new_beats) = Len(beat_frames) + inserted_count
        /\ \A k \in 0..(Len(beat_frames) - 1) :
                new_beats[k + 1 + InsertedBefore(k)] = FromInt(beat_frames[k + 1])
        /\ \A s \in 1..shift_pos :
                Inserting(unique_shifts[s]) =>
                    LET k == unique_shifts[s].beat_idx
                        x == new_beats[k + 2 + InsertedBefore(k)]
                    IN  /\ FLt(FromInt(beat_frames[k + 1]), x)
                        /\ FLt(x, FromInt(beat_frames[k + 2]))
        /\ StrictlyIncreasing(new_beats)
        /\ pc = "done" =>
                /\ returned = new_beats
                /\ \A k \in 1..Len(beat_frames) :
                        FromInt(beat_frames[k]) \in Range(returned)

\* a frame was inserted after the first beat, two events with phase 0.0 were
\* passed over, and then a second frame was inserted behind a later beat
C12_Witness ==
    /\ InsertLoop /\ pc = "done"
    /\ StrictlyIncreasing(AsFloats(beat_frames))
    /\ inserted_count = 2
    /\ Len(returned) = Len(beat_frames) + 2
    /\ \E s \in 1..Len(unique_shifts), t \in 1..Len(unique_shifts),
            u \in 1..Len(unique_shifts) :
            /\ s < t /\ t < u
            /\ Inserting(unique_shifts[s])
            /\ ~Inserting(unique_shifts[t])
            /\ Inserting(unique_shifts[u])

-----------------------------------------------------------------------------
(* frames_to_time_precise: properties                                      *)

TimeDone == fn = "frames_to_time_precise" /\ pc = "done"

\* C7 (as claimed): for every envelope and every increasing frame sequence
\* (real-valued frames included) there is one time per frame and the times
\* are monotonically non-decreasing.
C7_TimesNonDecreasing ==
    TimeDone =>
        /\ Len(times) = Len(frames)
        /\ \A k \in 1..(Len(times) - 1) : FLeq(times[k], times[k + 1])

-----------------------------------------------------------------------------
(* refine_beats_to_onsets_advanced: properties                             *)

RefineDone == fn = "refine_beats_to_onsets_advanced" /\ pc = "done"

\* C8: for every envelope, onset sequence and strictly increasing coarse
\* beat sequence the refined sequence has the length of the input and is
\* monotonically non-decreasing.
C8_RefinedNonDecreasing ==
    RefineDone =>
        /\ Len(refined) = Len(beat_frames)
        /\ \A k \in 1..(Len(refined) - 1) : FLeq(refined[k], refined[k + 1])

\* one beat snapped to an onset and the next one to an envelope peak, both moved
C8_Witness ==
    /\ RefineDone
    /\ Len(beat_frames) = 2
    /\ SnapsToOnset(onset_frames, beat_frames[1], SearchWindow(beat_frames))
    /\ ~SnapsToOnset(onset_frames, beat_frames[2], SearchWindow(beat_frames))
    /\ refined[1] # FromInt(beat_frames[1])
    /\ refined[2] # FromInt(beat_frames[2])
    /\ FLt(refined[1], refined[2])

=============================================================================
